---- MODULE Spec2Model ----
(***************************************************************************)
(* A model of generate_ieee_figures.py: a top-to-bottom script that loads  *)
(* a JSON results file, aggregates avg_phi per system size (Panel A) and   *)
(* per noise amplitude (Panel B), derives the Panel C and Panel D series,  *)
(* writes three figures and prints a final summary; and of the main        *)
(* program of paper5_calculo_significados/generate_figures.py, which makes *)
(* its output directory and saves three diagrams.  Each specification runs *)
(* one of the two scripts; the variables of the other stay as they start.  *)
(*                                                                         *)
(* Numbers.  avg_phi is held in units of 0.01 (2 is 0.02, 4 is 0.04) and   *)
(* noise_amplitude in tenths (5 is 0.5, 200 is 20.0).  A computed real is  *)
(* a record [num, den, surd]: the rational num/den in lowest terms when    *)
(* surd is FALSE, the square root of num/den when surd is TRUE, and 0/0 is *)
(* the float nan.  Arithmetic is exact: float rounding is not modelled.    *)
(***************************************************************************)
EXTENDS Integers, Sequences, FiniteSets, TLC

VARIABLES
    pc,                 \* position of the script
    err,                \* the unhandled exception that ended the run, or "none"
    fileStatus,         \* the input file: "ok", "missing", "malformed", "no_results"
    fileResults,        \* the 'results' collection the input file holds
    fileMeta,           \* the metadata fields the input file holds, with their values
    dirSeen,            \* whether the output directory existed, at each savefig so far
    data,               \* the loaded document: the metadata fields of `data`
    results,            \* data['results']
    phi_by_size, phi_std_by_size, max_idx,
    phi_by_noise, phi_std_by_noise, optimal_idx,
    quantum_configs, classical_phi, quantum_phi,
    runtime_cubic, runtime_exponential,
    figures,            \* figures created so far (1, 2, 3), in order
    written,            \* output files written so far, in order
    printed,            \* console messages printed so far, in order
    \* generate_figures.py of paper 5
    as_main,            \* whether the module runs as the main program (__name__)
    cwd_writable,       \* whether a directory can be created in the working directory
    figures_dir,        \* the path 'figures': "absent", "dir", or "file"
    dir_created,        \* whether os.makedirs had to create 'figures'
    dir_files,          \* the files in the directory 'figures'
    main_pc,            \* position of the script
    fig,                \* the figure function in progress (1, 2, 3), 0 outside
    exc,                \* the unhandled exception that ended the run, or "none"
    saved,              \* files saved so far, in order
    console             \* console messages printed so far, in order

paper5Vars == <<as_main, cwd_writable, figures_dir, dir_created, dir_files, main_pc, fig, exc,
                saved, console>>

ieeeVars == <<pc, err, fileStatus, fileResults, fileMeta, dirSeen, data, results,
          phi_by_size, phi_std_by_size, max_idx,
          phi_by_noise, phi_std_by_noise, optimal_idx,
          quantum_configs, classical_phi, quantum_phi,
          runtime_cubic, runtime_exponential, figures, written, printed>>

vars == <<ieeeVars, paper5Vars>>

(***************************************************************************)
(* Bounds of the model and the input domains.                              *)
(***************************************************************************)
MaxRecords == 3

EffNeuronsDom == {64, 729}
NoiseAmpDom == {0, 5}
AvgPhiDom == {2, 4}

NoiseLevelOf(amp) ==
    IF amp = 0 THEN "baseline" ELSE "low"

RecordDom ==
    { [effective_neurons |-> e, noise_amplitude |-> a,
       avg_phi |-> p, noise_level |-> NoiseLevelOf(a)] :
         e \in EffNeuronsDom, a \in NoiseAmpDom, p \in AvgPhiDom }

SeqsUpTo(S, n) == UNION { [1..k -> S] : k \in 0..n }

MetaFields == {"max_phi_achieved", "runtime_seconds", "system", "best_config"}
\* two documents that differ in all four fields (max_phi_achieved in units of
\* 0.0001), and one that lacks runtime_seconds
MetaDocA ==
    [max_phi_achieved |-> 365, runtime_seconds |-> 7044,
     system |-> "quantum_reservoir", best_config |-> "XLarge_MAXIMUM"]
MetaDocB ==
    [max_phi_achieved |-> 120, runtime_seconds |-> 3600,
     system |-> "laptop", best_config |-> "Small_Low"]
MetaDocNoRuntime ==
    [max_phi_achieved |-> 365, system |-> "quantum_reservoir",
     best_config |-> "XLarge_MAXIMUM"]
FileMetaDom == {MetaDocA, MetaDocB, MetaDocNoRuntime}

(***************************************************************************)
(* The literals of the script.                                             *)
(***************************************************************************)
sizes == <<64, 81, 243, 729>>
size_labels == <<"Large(64)", "Small(81)", "Medium(243)", "XLarge(729)">>
noise_levels == <<"Baseline", "Low", "Medium", "High", "Very High", "Extreme", "MAXIMUM">>
noise_values == <<0, 5, 10, 20, 50, 100, 200>>
n_range == <<10, 50, 100, 200, 500, 1000>>
CalibSize == 729
CalibRuntime == 7044
IntWidth == 64

(***************************************************************************)
(* Exact arithmetic on the reals the script computes.                      *)
(***************************************************************************)
Abs(x) == IF x < 0 THEN -x ELSE x

RECURSIVE GCD(_, _)
GCD(a, b) == IF b = 0 THEN a ELSE GCD(b, a % b)

\* num/den in lowest terms with a positive denominator; x/0 is nan (0/0)
Rat(n, d) ==
    IF d = 0 THEN [num |-> 0, den |-> 0, surd |-> FALSE]
    ELSE LET g == GCD(Abs(n), Abs(d))
             s == IF d < 0 THEN -1 ELSE 1
         IN [num |-> (s * n) \div g, den |-> (s * d) \div g, surd |-> FALSE]

Zero == Rat(0, 1)
NaN == Rat(0, 0)
IsNaN(x) == x.den = 0

RatAdd(x, y) ==
    IF IsNaN(x) \/ IsNaN(y) THEN NaN
    ELSE Rat(x.num * y.den + y.num * x.den, x.den * y.den)
RatSub(x, y) ==
    IF IsNaN(x) \/ IsNaN(y) THEN NaN
    ELSE Rat(x.num * y.den - y.num * x.den, x.den * y.den)
RatMul(x, y) ==
    IF IsNaN(x) \/ IsNaN(y) THEN NaN
    ELSE Rat(x.num * y.num, x.den * y.den)
RatDivInt(x, n) ==
    IF IsNaN(x) \/ n = 0 THEN NaN ELSE Rat(x.num, x.den * n)
RatLess(x, y) == x.num * y.den < y.num * x.den

RECURSIVE ISqrtFrom(_, _)
ISqrtFrom(n, k) == IF (k + 1) * (k + 1) > n THEN k ELSE ISqrtFrom(n, k + 1)
ISqrt(n) == ISqrtFrom(n, 0)
IsSquare(n) == ISqrt(n) * ISqrt(n) = n

\* the non-negative square root of a non-negative rational
RatSqrt(x) ==
    IF IsNaN(x) THEN NaN
    ELSE IF IsSquare(x.num) /\ IsSquare(x.den)
         THEN [num |-> ISqrt(x.num), den |-> ISqrt(x.den), surd |-> FALSE]
         ELSE [num |-> x.num, den |-> x.den, surd |-> TRUE]

RECURSIVE RatSum(_)
RatSum(xs) == IF xs = <<>> THEN Zero ELSE RatAdd(Head(xs), RatSum(Tail(xs)))

RECURSIVE IntSum(_)
IntSum(xs) == IF xs = <<>> THEN 0 ELSE Head(xs) + IntSum(Tail(xs))

\* a mean taken with integer division
NpMean_FloorDiv(xs) ==
    IF xs = <<>> THEN NaN ELSE Rat(IntSum(xs) \div Len(xs), 1)

\* np.mean of a list of avg_phi values: sum / len (nan for the empty list)
NpMean(xs) == RatDivInt(RatSum([i \in 1..Len(xs) |-> Rat(xs[i], 1)]), Len(xs))

\* a sample standard deviation: divisor n - 1
NpStd_Sample(xs) ==
    LET m == NpMean(xs)
        sq == [i \in 1..Len(xs) |->
                 LET d == RatSub(Rat(xs[i], 1), m) IN RatMul(d, d)]
    IN RatSqrt(RatDivInt(RatSum(sq), Len(xs) - 1))

\* np.std of a list: sqrt(mean(abs(x - mean(x))**2)), ddof = 0
NpStd(xs) ==
    LET m == NpMean(xs)
        sq == [i \in 1..Len(xs) |->
                 LET d == RatSub(Rat(xs[i], 1), m) IN RatMul(d, d)]
    IN RatSqrt(RatDivInt(RatSum(sq), Len(xs)))

\* np.argmax, 0-based: the first nan if there is one, else the first maximum
NpArgmax(xs) ==
    IF \E i \in 1..Len(xs) : IsNaN(xs[i])
    THEN (CHOOSE i \in 1..Len(xs) :
             IsNaN(xs[i]) /\ \A j \in 1..(i - 1) : ~IsNaN(xs[j])) - 1
    ELSE (CHOOSE i \in 1..Len(xs) :
             /\ \A j \in 1..Len(xs) : ~RatLess(xs[i], xs[j])
             /\ \A j \in 1..(i - 1) : RatLess(xs[j], xs[i])) - 1

(***************************************************************************)
(* Panel A: average avg_phi per system size, baseline (noise = 0) excluded. *)
(***************************************************************************)
\* a per-size filter that lets the baseline records through
SizeFilter_KeepsBaseline(r, size) ==
    r.effective_neurons = size /\ r.noise_amplitude >= 0

SizeFilter(r, size) == r.effective_neurons = size /\ r.noise_amplitude > 0

\* [r['avg_phi'] for r in results if ...], in the order of results
RECURSIVE SizeResults(_, _)
SizeResults(rs, size) ==
    IF rs = <<>> THEN <<>>
    ELSE (IF SizeFilter(Head(rs), size) THEN <<Head(rs).avg_phi>> ELSE <<>>)
         \o SizeResults(Tail(rs), size)

\* one pass of the loop body: what is appended to the two lists
SizeSummary(rs, size) ==
    LET size_results == SizeResults(rs, size)
    IN IF size_results # <<>>
       THEN [mean |-> NpMean(size_results), std |-> NpStd(size_results)]
       ELSE [mean |-> Zero, std |-> Zero]

\* a loop that leaves out the sizes no record matches
RECURSIVE PanelALoop_OmitsEmpty(_, _, _, _)
PanelALoop_OmitsEmpty(rs, k, means, stds) ==
    IF k > Len(sizes) THEN [mean |-> means, std |-> stds]
    ELSE LET s == SizeSummary(rs, sizes[k])
         IN IF SizeResults(rs, sizes[k]) = <<>>
            THEN PanelALoop_OmitsEmpty(rs, k + 1, means, stds)
            ELSE PanelALoop_OmitsEmpty(rs, k + 1, Append(means, s.mean),
                                       Append(stds, s.std))

\* for size in sizes: ... append, append
RECURSIVE PanelALoop(_, _, _, _)
PanelALoop(rs, k, means, stds) ==
    IF k > Len(sizes) THEN [mean |-> means, std |-> stds]
    ELSE LET s == SizeSummary(rs, sizes[k])
         IN PanelALoop(rs, k + 1, Append(means, s.mean), Append(stds, s.std))

(***************************************************************************)
(* Panel B: average avg_phi per noise amplitude, across all system sizes.  *)
(***************************************************************************)
NoiseFilter(r, noise_amp) == r.noise_amplitude = noise_amp

RECURSIVE NoiseResults(_, _)
NoiseResults(rs, noise_amp) ==
    IF rs = <<>> THEN <<>>
    ELSE (IF NoiseFilter(Head(rs), noise_amp) THEN <<Head(rs).avg_phi>> ELSE <<>>)
         \o NoiseResults(Tail(rs), noise_amp)

\* the loop body has no guard for an empty list: np.mean([]) and np.std([]) are nan
NoiseSummary(rs, noise_amp) ==
    LET noise_results == NoiseResults(rs, noise_amp)
    IN [mean |-> NpMean(noise_results), std |-> NpStd(noise_results)]

\* the declared amplitudes in the order the records first meet them, the rest after
RECURSIVE FirstMet(_, _)
FirstMet(rs, seen) ==
    IF rs = <<>> THEN seen
    ELSE LET a == Head(rs).noise_amplitude
         IN IF (\E k \in 1..Len(seen) : seen[k] = a)
               \/ ~(\E k \in 1..Len(noise_values) : noise_values[k] = a)
            THEN FirstMet(Tail(rs), seen)
            ELSE FirstMet(Tail(rs), Append(seen, a))

DiscoveryKeys(rs) ==
    LET met == FirstMet(rs, <<>>)
        NotMet(a) == ~(\E k \in 1..Len(met) : met[k] = a)
    IN met \o SelectSeq(noise_values, NotMet)

\* a loop that emits the summaries in discovery order
RECURSIVE PanelBLoop_DiscoveryOrder(_, _, _, _)
PanelBLoop_DiscoveryOrder(rs, k, means, stds) ==
    IF k > Len(noise_values) THEN [mean |-> means, std |-> stds]
    ELSE LET s == NoiseSummary(rs, DiscoveryKeys(rs)[k])
         IN PanelBLoop_DiscoveryOrder(rs, k + 1, Append(means, s.mean),
                                      Append(stds, s.std))

RECURSIVE PanelBLoop(_, _, _, _)
PanelBLoop(rs, k, means, stds) ==
    IF k > Len(noise_values) THEN [mean |-> means, std |-> stds]
    ELSE LET s == NoiseSummary(rs, noise_values[k])
         IN PanelBLoop(rs, k + 1, Append(means, s.mean), Append(stds, s.std))

(***************************************************************************)
(* Panel C: the measured configurations, sorted by size on a derived list. *)
(***************************************************************************)
RECURSIVE QuantumConfigs(_)
QuantumConfigs(rs) ==
    IF rs = <<>> THEN <<>>
    ELSE (IF Head(rs).noise_amplitude > 0
          THEN << <<Head(rs).effective_neurons, Head(rs).noise_level,
                    Head(rs).avg_phi>> >>
          ELSE <<>>)
         \o QuantumConfigs(Tail(rs))

\* list.sort(key=...) is stable: the position i goes after every position
\* already placed whose key is <= its own
RECURSIVE InsertByKey(_, _, _)
InsertByKey(keys, i, order) ==
    IF order = <<>> THEN <<i>>
    ELSE IF keys[Head(order)] <= keys[i]
         THEN <<Head(order)>> \o InsertByKey(keys, i, Tail(order))
         ELSE <<i>> \o order

\* the positions 1..n of keys in sorted order
RECURSIVE SortOrder(_, _)
SortOrder(keys, n) ==
    IF n = 0 THEN <<>> ELSE InsertByKey(keys, n, SortOrder(keys, n - 1))

\* s.sort(key=lambda x: x[0]) on a list of tuples
SortByFirst(s) ==
    LET order == SortOrder([i \in 1..Len(s) |-> s[i][1]], Len(s))
    IN [i \in 1..Len(s) |-> s[order[i]]]

\* the records themselves sorted by effective_neurons
SortRecordsBySize(rs) ==
    LET order == SortOrder([i \in 1..Len(rs) |-> rs[i].effective_neurons], Len(rs))
    IN [i \in 1..Len(rs) |-> rs[order[i]]]

(***************************************************************************)
(* Panel D: the two reference curves.                                      *)
(***************************************************************************)
\* a cubic curve calibrated on the largest system size among the loaded records
CubicAt_ScaledToLargestRecord(n) ==
    LET top == IF results = <<>>
                  \/ (\E i \in 1..Len(results) : results[i].effective_neurons = CalibSize)
               THEN CalibSize ELSE results[1].effective_neurons
        r == Rat(n, top)
    IN [num |-> r.num * r.num * r.num, den |-> r.den * r.den * r.den,
        times |-> CalibRuntime]

\* a cubic curve calibrated on another of the system sizes
CubicAt_WrongCalibration(n) ==
    LET r == Rat(n, sizes[3])
    IN [num |-> r.num * r.num * r.num, den |-> r.den * r.den * r.den,
        times |-> CalibRuntime]

\* (n / 729)**3 * 7044, kept as (num/den) * times with num/den = (n/729)**3
CubicAt(n) ==
    LET r == Rat(n, CalibSize)
    IN [num |-> r.num * r.num * r.num, den |-> r.den * r.den * r.den,
        times |-> CalibRuntime]

\* 2**n on a fixed-width signed integer array: sign * 2^exp after wrap-around
Pow2Wrapped(n) ==
    IF n < IntWidth - 1 THEN [sign |-> 1, exp |-> n]
    ELSE IF n = IntWidth - 1 THEN [sign |-> -1, exp |-> n]
    ELSE [sign |-> 0, exp |-> 0]

\* 2**n * 0.001: sign * 2^exp / 1000
ExponentialAt(n) == [sign |-> Pow2Wrapped(n).sign, exp |-> Pow2Wrapped(n).exp, per |-> 1000]

(***************************************************************************)
(* The run.                                                                *)
(***************************************************************************)
Msg(text, n) == [text |-> text, n |-> n]

\* output paths after a copy-and-paste slip: Figure 3 goes to Figure 2's file
FigureFile_CopyPaste(k) ==
    IF k = 1 THEN "simulated_results.png" ELSE "hierarchical_structure.png"

FigureFile(k) ==
    IF k = 1 THEN "simulated_results.png"
    ELSE IF k = 2 THEN "hierarchical_structure.png"
    ELSE "topological_invariants.png"

\* the paper-5 script is not run
Paper5NotRun ==
    /\ as_main = FALSE /\ cwd_writable = FALSE /\ figures_dir = "absent"
    /\ dir_created = FALSE /\ dir_files = {} /\ main_pc = "not_run" /\ fig = 0 /\ exc = "none"
    /\ saved = <<>> /\ console = <<>>

Init ==
    /\ Paper5NotRun
    /\ pc = "load"
    /\ err = "none"
    /\ fileStatus \in {"ok", "missing", "malformed", "no_results"}
    /\ fileResults \in (IF fileStatus = "ok"
                        THEN SeqsUpTo(RecordDom, MaxRecords) ELSE {<<>>})
    /\ fileMeta \in (IF fileStatus = "ok" THEN FileMetaDom ELSE {<<>>})
    /\ dirSeen = <<>>
    /\ data = <<>>
    /\ results = <<>>
    /\ phi_by_size = <<>> /\ phi_std_by_size = <<>> /\ max_idx = -1
    /\ phi_by_noise = <<>> /\ phi_std_by_noise = <<>> /\ optimal_idx = -1
    /\ quantum_configs = <<>> /\ classical_phi = <<>> /\ quantum_phi = <<>>
    /\ runtime_cubic = <<>> /\ runtime_exponential = <<>>
    /\ figures = <<>>
    /\ written = <<>>
    /\ printed = <<>>

\* an unhandled exception: the interpreter reports it and the process ends
Raise(kind) == pc' = "failed" /\ err' = kind

\* a load that falls back to an empty collection when the file cannot be read
Load_FallsBackToEmpty ==
    /\ pc = "load"
    /\ data' = fileMeta
    /\ results' = IF fileStatus = "ok" THEN fileResults ELSE <<>>
    /\ pc' = "figure1"
    /\ UNCHANGED <<paper5Vars, err, fileStatus, fileResults, fileMeta, dirSeen,
                   phi_by_size, phi_std_by_size, max_idx,
                   phi_by_noise, phi_std_by_noise, optimal_idx,
                   quantum_configs, classical_phi, quantum_phi,
                   runtime_cubic, runtime_exponential, figures, written, printed>>

\* with open(...) as f: data = json.load(f);  results = data['results']
Load ==
    /\ pc = "load"
    /\ IF fileStatus = "ok"
       THEN /\ data' = fileMeta
            /\ results' = fileResults
            /\ pc' = "figure1"
            /\ err' = err
       ELSE /\ Raise("DataLoadError")
            /\ UNCHANGED <<data, results>>
    /\ UNCHANGED <<paper5Vars, fileStatus, fileResults, fileMeta, dirSeen,
                   phi_by_size, phi_std_by_size, max_idx,
                   phi_by_noise, phi_std_by_noise, optimal_idx,
                   quantum_configs, classical_phi, quantum_phi,
                   runtime_cubic, runtime_exponential, figures, written, printed>>

\* print("Generating Figure 1 ...");  fig = plt.figure(...);  gs = GridSpec(...)
BeginFigure1 ==
    /\ pc = "figure1"
    /\ printed' = Append(printed, Msg("generating", 1))
    /\ figures' = Append(figures, 1)
    /\ pc' = "panelA"
    /\ UNCHANGED <<paper5Vars, err, fileStatus, fileResults, fileMeta, dirSeen, data, results,
                   phi_by_size, phi_std_by_size, max_idx,
                   phi_by_noise, phi_std_by_noise, optimal_idx,
                   quantum_configs, classical_phi, quantum_phi,
                   runtime_cubic, runtime_exponential, written>>

\* np.argmax raises ValueError on an empty sequence
PanelA ==
    /\ pc = "panelA"
    /\ LET out == PanelALoop(results, 1, <<>>, <<>>)
       IN /\ phi_by_size' = out.mean
          /\ phi_std_by_size' = out.std
          /\ IF out.mean = <<>>
             THEN max_idx' = max_idx /\ Raise("ValueError")
             ELSE max_idx' = NpArgmax(out.mean) /\ pc' = "panelB" /\ err' = err
    /\ UNCHANGED <<paper5Vars, fileStatus, fileResults, fileMeta, dirSeen, data, results,
                   phi_by_noise, phi_std_by_noise, optimal_idx,
                   quantum_configs, classical_phi, quantum_phi,
                   runtime_cubic, runtime_exponential, figures, written, printed>>

PanelB ==
    /\ pc = "panelB"
    /\ LET out == PanelBLoop(results, 1, <<>>, <<>>)
       IN /\ phi_by_noise' = out.mean
          /\ phi_std_by_noise' = out.std
          /\ IF out.mean = <<>>
             THEN optimal_idx' = optimal_idx /\ Raise("ValueError")
             ELSE optimal_idx' = NpArgmax(out.mean) /\ pc' = "panelC" /\ err' = err
    /\ UNCHANGED <<paper5Vars, fileStatus, fileResults, fileMeta, dirSeen, data, results,
                   phi_by_size, phi_std_by_size, max_idx,
                   quantum_configs, classical_phi, quantum_phi,
                   runtime_cubic, runtime_exponential, figures, written, printed>>

\* a Panel C that sorts the loaded records themselves
PanelC_SortsResults ==
    /\ pc = "panelC"
    /\ results' = SortRecordsBySize(results)
    /\ quantum_configs' = QuantumConfigs(results')
    /\ classical_phi' = [i \in 1..Len(quantum_configs') |-> Zero]
    /\ quantum_phi' = [i \in 1..Len(quantum_configs') |-> quantum_configs'[i][3]]
    /\ pc' = "panelD"
    /\ UNCHANGED <<paper5Vars, err, fileStatus, fileResults, fileMeta, dirSeen, data,
                   phi_by_size, phi_std_by_size, max_idx,
                   phi_by_noise, phi_std_by_noise, optimal_idx,
                   runtime_cubic, runtime_exponential, figures, written, printed>>

PanelC ==
    /\ pc = "panelC"
    /\ quantum_configs' = SortByFirst(QuantumConfigs(results))
    /\ classical_phi' = [i \in 1..Len(quantum_configs') |-> Zero]
    /\ quantum_phi' = [i \in 1..Len(quantum_configs') |-> quantum_configs'[i][3]]
    /\ pc' = "panelD"
    /\ UNCHANGED <<paper5Vars, err, fileStatus, fileResults, fileMeta, dirSeen, data, results,
                   phi_by_size, phi_std_by_size, max_idx,
                   phi_by_noise, phi_std_by_noise, optimal_idx,
                   runtime_cubic, runtime_exponential, figures, written, printed>>

\* a Panel D that scales the cubic curve by the runtime the input file reports
PanelD_CalibratesFromMetadata ==
    /\ pc = "panelD"
    /\ IF "runtime_seconds" \in DOMAIN data
       THEN /\ runtime_cubic' = [i \in 1..Len(n_range) |->
                  [CubicAt(n_range[i]) EXCEPT !.times = data.runtime_seconds]]
            /\ runtime_exponential' =
                  [i \in 1..Len(n_range) |-> ExponentialAt(n_range[i])]
            /\ pc' = "save1" /\ err' = err
       ELSE /\ Raise("KeyError")
            /\ UNCHANGED <<runtime_cubic, runtime_exponential>>
    /\ UNCHANGED <<paper5Vars, fileStatus, fileResults, fileMeta, dirSeen, data, results,
                   phi_by_size, phi_std_by_size, max_idx,
                   phi_by_noise, phi_std_by_noise, optimal_idx,
                   quantum_configs, classical_phi, quantum_phi,
                   figures, written, printed>>

PanelD ==
    /\ pc = "panelD"
    /\ runtime_cubic' = [i \in 1..Len(n_range) |-> CubicAt(n_range[i])]
    /\ runtime_exponential' = [i \in 1..Len(n_range) |-> ExponentialAt(n_range[i])]
    /\ pc' = "save1"
    /\ UNCHANGED <<paper5Vars, err, fileStatus, fileResults, fileMeta, dirSeen, data, results,
                   phi_by_size, phi_std_by_size, max_idx,
                   phi_by_noise, phi_std_by_noise, optimal_idx,
                   quantum_configs, classical_phi, quantum_phi,
                   figures, written, printed>>

\* a save whose failure is swallowed: the run goes on to the next figure
SaveFigure_SwallowsError(k, next) ==
    /\ \E dirExists \in BOOLEAN :
          /\ dirSeen' = Append(dirSeen, dirExists)
          /\ written' = IF dirExists THEN Append(written, FigureFile(k)) ELSE written
          /\ printed' = IF dirExists THEN Append(printed, Msg("saved", k)) ELSE printed
          /\ pc' = next
          /\ err' = err
    /\ UNCHANGED <<paper5Vars, fileStatus, fileResults, fileMeta, data, results,
                   phi_by_size, phi_std_by_size, max_idx,
                   phi_by_noise, phi_std_by_noise, optimal_idx,
                   quantum_configs, classical_phi, quantum_phi,
                   runtime_cubic, runtime_exponential, figures>>

\* plt.savefig(<output directory>/<file>);  print("Figure k saved")
\* savefig opens the path for writing and creates no directory
SaveFigure(k, next) ==
    /\ \E dirExists \in BOOLEAN :
          /\ dirSeen' = Append(dirSeen, dirExists)
          /\ IF dirExists
             THEN /\ written' = Append(written, FigureFile(k))
                  /\ printed' = Append(printed, Msg("saved", k))
                  /\ pc' = next
                  /\ err' = err
             ELSE /\ Raise("WriteError")
                  /\ UNCHANGED <<written, printed>>
    /\ UNCHANGED <<paper5Vars, fileStatus, fileResults, fileMeta, data, results,
                   phi_by_size, phi_std_by_size, max_idx,
                   phi_by_noise, phi_std_by_noise, optimal_idx,
                   quantum_configs, classical_phi, quantum_phi,
                   runtime_cubic, runtime_exponential, figures>>

SaveFigure1 == pc = "save1" /\ SaveFigure(1, "figure2")
SaveFigure2 == pc = "save2" /\ SaveFigure(2, "figure3")
SaveFigure3 == pc = "save3" /\ SaveFigure(3, "banner")

\* print("Generating Figure k ...") and the drawing of a figure that reads no record
DrawFigure(k, next) ==
    /\ printed' = Append(printed, Msg("generating", k))
    /\ figures' = Append(figures, k)
    /\ pc' = next
    /\ UNCHANGED <<paper5Vars, err, fileStatus, fileResults, fileMeta, dirSeen, data, results,
                   phi_by_size, phi_std_by_size, max_idx,
                   phi_by_noise, phi_std_by_noise, optimal_idx,
                   quantum_configs, classical_phi, quantum_phi,
                   runtime_cubic, runtime_exponential, written>>

Figure2 == pc = "figure2" /\ DrawFigure(2, "save2")
Figure3 == pc = "figure3" /\ DrawFigure(3, "save3")

\* the SUCCESS banner
Banner ==
    /\ pc = "banner"
    /\ printed' = Append(printed, Msg("SUCCESS", 0))
    /\ pc' = "summary"
    /\ UNCHANGED <<paper5Vars, err, fileStatus, fileResults, fileMeta, dirSeen, data, results,
                   phi_by_size, phi_std_by_size, max_idx,
                   phi_by_noise, phi_std_by_noise, optimal_idx,
                   quantum_configs, classical_phi, quantum_phi,
                   runtime_cubic, runtime_exponential, figures, written>>

\* data[key]; a missing key raises KeyError where the line is printed
Get(d, key) == IF key \in DOMAIN d THEN d[key] ELSE "KeyError"

\* a summary that counts the measured configurations only
SummaryLines_CountsMeasured(rs, d) ==
    << [msg |-> Msg("files_created", 0), key |-> ""],
       [msg |-> Msg("fig1_phi_max", Get(d, "max_phi_achieved")), key |-> "max_phi_achieved"],
       [msg |-> Msg("fig2", 0), key |-> ""],
       [msg |-> Msg("fig3", 0), key |-> ""],
       [msg |-> Msg("details", 0), key |-> ""],
       [msg |-> Msg("configurations_tested", Len(QuantumConfigs(rs))), key |-> ""],
       [msg |-> Msg("runtime", Get(d, "runtime_seconds")), key |-> "runtime_seconds"],
       [msg |-> Msg("system", Get(d, "system")), key |-> "system"],
       [msg |-> Msg("best_config", Get(d, "best_config")), key |-> "best_config"],
       [msg |-> Msg("next_step", 0), key |-> ""] >>

\* the lines of the final summary, each with the key of `data` it reads ("" for none)
SummaryLines(rs, d) ==
    << [msg |-> Msg("files_created", 0), key |-> ""],
       [msg |-> Msg("fig1_phi_max", Get(d, "max_phi_achieved")), key |-> "max_phi_achieved"],
       [msg |-> Msg("fig2", 0), key |-> ""],
       [msg |-> Msg("fig3", 0), key |-> ""],
       [msg |-> Msg("details", 0), key |-> ""],
       [msg |-> Msg("configurations_tested", Len(rs)), key |-> ""],
       [msg |-> Msg("runtime", Get(d, "runtime_seconds")), key |-> "runtime_seconds"],
       [msg |-> Msg("system", Get(d, "system")), key |-> "system"],
       [msg |-> Msg("best_config", Get(d, "best_config")), key |-> "best_config"],
       [msg |-> Msg("next_step", 0), key |-> ""] >>

\* the lines printed before the first line whose key `d` lacks
RECURSIVE PrintedPrefix(_, _)
PrintedPrefix(lines, d) ==
    IF lines = <<>> THEN <<>>
    ELSE IF Head(lines).key # "" /\ Head(lines).key \notin DOMAIN d THEN <<>>
    ELSE <<Head(lines).msg>> \o PrintedPrefix(Tail(lines), d)

Summary ==
    /\ pc = "summary"
    /\ LET lines == SummaryLines(results, data)
           out == PrintedPrefix(lines, data)
       IN /\ printed' = printed \o out
          /\ IF Len(out) = Len(lines)
             THEN pc' = "done" /\ err' = err
             ELSE Raise("KeyError")
    /\ UNCHANGED <<paper5Vars, fileStatus, fileResults, fileMeta, dirSeen, data, results,
                   phi_by_size, phi_std_by_size, max_idx,
                   phi_by_noise, phi_std_by_noise, optimal_idx,
                   quantum_configs, classical_phi, quantum_phi,
                   runtime_cubic, runtime_exponential, figures, written>>

Next ==
    \/ Load
    \/ BeginFigure1
    \/ PanelA
    \/ PanelB
    \/ PanelC
    \/ PanelD
    \/ SaveFigure1
    \/ Figure2
    \/ SaveFigure2
    \/ Figure3
    \/ SaveFigure3
    \/ Banner
    \/ Summary

Spec == Init /\ [][Next]_vars

(***************************************************************************)
(* generate_figures.py of paper 5.  The script is the only writer of the   *)
(* path 'figures' while it runs: the path changes only by its own steps.   *)
(* What the three functions draw (the random noise of Figure 2 included)   *)
(* reaches no file name, message or control decision and is left out.      *)
(***************************************************************************)

\* the output path of each figure function, in the order of the calls
PaperFigures == <<"figures/mom_architecture.png",
                  "figures/fourier_cognitive_spectrum.png",
                  "figures/pve_protocol_flowchart.png">>

\* the script is not run as this specification's program
IeeeNotRun ==
    /\ pc = "not_run" /\ err = "none" /\ fileStatus = "missing"
    /\ fileResults = <<>> /\ fileMeta = <<>> /\ dirSeen = <<>>
    /\ data = <<>> /\ results = <<>>
    /\ phi_by_size = <<>> /\ phi_std_by_size = <<>> /\ max_idx = -1
    /\ phi_by_noise = <<>> /\ phi_std_by_noise = <<>> /\ optimal_idx = -1
    /\ quantum_configs = <<>> /\ classical_phi = <<>> /\ quantum_phi = <<>>
    /\ runtime_cubic = <<>> /\ runtime_exponential = <<>>
    /\ figures = <<>> /\ written = <<>> /\ printed = <<>>

InitPaper5 ==
    /\ IeeeNotRun
    /\ as_main \in BOOLEAN
    /\ cwd_writable \in BOOLEAN
    /\ figures_dir \in {"absent", "dir", "file"}
    /\ dir_files \in IF figures_dir = "dir"
                     THEN SUBSET {PaperFigures[k] : k \in 1..Len(PaperFigures)}
                     ELSE {{}}
    /\ dir_created = FALSE
    /\ main_pc = "import"
    /\ fig = 0
    /\ exc = "none"
    /\ saved = <<>>
    /\ console = <<>>

\* an exception nothing catches ends the run
PaperRaise(kind) == main_pc' = "failed" /\ exc' = kind

\* imports, style, the three function definitions; the main guard
ImportModule ==
    /\ main_pc = "import"
    /\ main_pc' = IF as_main THEN "header" ELSE "imported"
    /\ UNCHANGED <<ieeeVars, as_main, cwd_writable, figures_dir, dir_created,
                   dir_files, fig, exc, saved, console>>

PrintHeader ==
    /\ main_pc = "header"
    /\ console' = Append(console, Msg("header", 0))
    /\ main_pc' = "makedirs"
    /\ UNCHANGED <<ieeeVars, as_main, cwd_writable, figures_dir, dir_created,
                   dir_files, fig, exc, saved>>

\* a script that goes on to the figures without making the directory
MakeFiguresDir_Skipped ==
    /\ main_pc = "makedirs"
    /\ main_pc' = "announce" /\ fig' = 1
    /\ UNCHANGED <<ieeeVars, as_main, cwd_writable, figures_dir, dir_created,
                   dir_files, exc, saved, console>>

\* os.makedirs('figures', exist_ok=True)
MakeFiguresDir ==
    /\ main_pc = "makedirs"
    /\ IF figures_dir = "file"
       THEN /\ PaperRaise("FileExistsError")
            /\ UNCHANGED <<figures_dir, dir_created, fig>>
       ELSE IF figures_dir = "absent" /\ ~cwd_writable
       THEN /\ PaperRaise("PermissionError")
            /\ UNCHANGED <<figures_dir, dir_created, fig>>
       ELSE /\ figures_dir' = "dir"
            /\ dir_created' = (figures_dir = "absent")
            /\ main_pc' = "announce" /\ fig' = 1
            /\ UNCHANGED exc
    /\ UNCHANGED <<ieeeVars, as_main, cwd_writable, dir_files, saved, console>>

\* print("Generating Figure k: ...") and the call of the k-th function
Announce(k) ==
    /\ main_pc = "announce" /\ fig = k
    /\ console' = Append(console, Msg("Generating", k))
    /\ main_pc' = "draw"
    /\ UNCHANGED <<ieeeVars, as_main, cwd_writable, figures_dir, dir_created,
                   dir_files, fig, exc, saved>>

\* plt.subplots(...) to plt.tight_layout()
Draw(k) ==
    /\ main_pc = "draw" /\ fig = k
    /\ main_pc' = "savefig"
    /\ UNCHANGED <<ieeeVars, as_main, cwd_writable, figures_dir, dir_created,
                   dir_files, fig, exc, saved, console>>

\* plt.savefig('figures/<name>.png', ...): the file is created or overwritten;
\* a write can also fail for a reason other than the directory
Savefig(k) ==
    /\ main_pc = "savefig" /\ fig = k
    /\ IF figures_dir = "absent"
       THEN PaperRaise("FileNotFoundError") /\ UNCHANGED <<saved, dir_files>>
       ELSE IF figures_dir = "file"
       THEN PaperRaise("NotADirectoryError") /\ UNCHANGED <<saved, dir_files>>
       ELSE \E written_ok \in BOOLEAN :
              IF written_ok
              THEN /\ saved' = Append(saved, PaperFigures[k])
                   /\ dir_files' = dir_files \cup {PaperFigures[k]}
                   /\ main_pc' = "print_saved"
                   /\ UNCHANGED exc
              ELSE PaperRaise("OSError") /\ UNCHANGED <<saved, dir_files>>
    /\ UNCHANGED <<ieeeVars, as_main, cwd_writable, figures_dir, dir_created,
                   fig, console>>

\* print("Figure k saved: ...")
PrintSaved(k) ==
    /\ main_pc = "print_saved" /\ fig = k
    /\ console' = Append(console, Msg("saved", k))
    /\ main_pc' = "close"
    /\ UNCHANGED <<ieeeVars, as_main, cwd_writable, figures_dir, dir_created,
                   dir_files, fig, exc, saved>>

\* plt.close() and the return to the main program
CloseFigure(k) ==
    /\ main_pc = "close" /\ fig = k
    /\ IF k < Len(PaperFigures)
       THEN main_pc' = "announce" /\ fig' = k + 1
       ELSE main_pc' = "footer" /\ fig' = 0
    /\ UNCHANGED <<ieeeVars, as_main, cwd_writable, figures_dir, dir_created,
                   dir_files, exc, saved, console>>

FigureFunction(k) == Draw(k) \/ Savefig(k) \/ PrintSaved(k) \/ CloseFigure(k)

figure1_mom_architecture == FigureFunction(1)

figure2_fourier_spectrum == FigureFunction(2)

figure3_pve_protocol == FigureFunction(3)

\* the ALL FIGURES GENERATED banner
PrintFooter ==
    /\ main_pc = "footer"
    /\ console' = Append(console, Msg("ALL FIGURES GENERATED", 0))
    /\ main_pc' = "location"
    /\ UNCHANGED <<ieeeVars, as_main, cwd_writable, figures_dir, dir_created,
                   dir_files, fig, exc, saved>>

\* the location and the three file names
PrintLocation ==
    /\ main_pc = "location"
    /\ console' = console \o <<Msg("Location", 0), Msg("name", 1), Msg("name", 2),
                                Msg("name", 3)>>
    /\ main_pc' = "done"
    /\ UNCHANGED <<ieeeVars, as_main, cwd_writable, figures_dir, dir_created,
                   dir_files, fig, exc, saved>>

NextPaper5 ==
    \/ ImportModule
    \/ PrintHeader
    \/ MakeFiguresDir
    \/ \E k \in 1..Len(PaperFigures) : Announce(k)
    \/ figure1_mom_architecture
    \/ figure2_fourier_spectrum
    \/ figure3_pve_protocol
    \/ PrintFooter
    \/ PrintLocation

SpecPaper5 == InitPaper5 /\ [][NextPaper5]_vars

(***************************************************************************)
(* What the properties below are stated with.                              *)
(***************************************************************************)
\* both aggregation loops have just run: no later step assigns the summary lists
AfterPanelB == pc = "panelC"

\* the records of rs a group key selects, by position
MatchingSize(rs, size) ==
    { i \in 1..Len(rs) : rs[i].effective_neurons = size /\ rs[i].noise_amplitude > 0 }
MatchingNoise(rs, amp) ==
    { i \in 1..Len(rs) : rs[i].noise_amplitude = amp }

RECURSIVE SumPhi(_, _)
SumPhi(rs, S) ==
    IF S = {} THEN 0
    ELSE LET i == CHOOSE j \in S : TRUE IN rs[i].avg_phi + SumPhi(rs, S \ {i})

\* the arithmetic mean of avg_phi over the records at the positions S
ArithMean(rs, S) == Rat(SumPhi(rs, S), Cardinality(S))

\* C1 (as claimed): every declared key no record matches, of the 4 sizes and
\* of the 7 noise amplitudes alike, is summarised as exactly (mean 0, std 0).
C1_EmptyGroupsAreZero ==
    AfterPanelB =>
      /\ \A k \in 1..Len(sizes) :
           MatchingSize(results, sizes[k]) = {}
             => phi_by_size[k] = Zero /\ phi_std_by_size[k] = Zero
      /\ \A k \in 1..Len(noise_values) :
           MatchingNoise(results, noise_values[k]) = {}
             => phi_by_noise[k] = Zero /\ phi_std_by_noise[k] = Zero

\* C2: for every declared key with at least one matching record the mean is
\* the arithmetic mean of avg_phi over exactly the matching records, and the
\* standard deviation is 0 when exactly one record matches.
C2_MeanOfMatchingSubset ==
    AfterPanelB =>
      /\ \A k \in 1..Len(sizes) :
           LET S == MatchingSize(results, sizes[k])
           IN S # {} =>
                /\ phi_by_size[k] = ArithMean(results, S)
                /\ Cardinality(S) = 1 => phi_std_by_size[k] = Zero
      /\ \A k \in 1..Len(noise_values) :
           LET S == MatchingNoise(results, noise_values[k])
           IN S # {} =>
                /\ phi_by_noise[k] = ArithMean(results, S)
                /\ Cardinality(S) = 1 => phi_std_by_noise[k] = Zero

\* a group of three with a fractional mean, a group of one, and a mixed collection
C2_Witness ==
    /\ pc = "panelC"
    /\ \E k \in 1..Len(noise_values) :
         /\ Cardinality(MatchingNoise(results, noise_values[k])) = 3
         /\ phi_by_noise[k].den = 3
    /\ \E k \in 1..Len(sizes) : Cardinality(MatchingSize(results, sizes[k])) = 1

\* rs without the records at the positions S
RECURSIVE Without(_, _)
Without(rs, S) ==
    IF rs = <<>> THEN <<>>
    ELSE LET rest == Without(Tail(rs), { i - 1 : i \in S \ {1} })
         IN IF 1 \in S THEN rest ELSE <<Head(rs)>> \o rest

Baseline(rs) == { i \in 1..Len(rs) : rs[i].noise_amplitude = 0 }

\* C3: a record with noise_amplitude = 0 contributes to no per-size summary
\* (the per-size lists are those of the collection without its baseline
\* records), and every such record contributes to the per-noise summary at
\* the first position, keyed 0.0.
C3_BaselineFiltering ==
    AfterPanelB =>
      /\ LET out == PanelALoop(Without(results, Baseline(results)), 1, <<>>, <<>>)
         IN phi_by_size = out.mean /\ phi_std_by_size = out.std
      /\ noise_values[1] = 0
      /\ Len(NoiseResults(results, noise_values[1])) = Cardinality(Baseline(results))
      /\ Baseline(results) # {} =>
           phi_by_noise[1] = ArithMean(results, Baseline(results))
      /\ \A i \in Baseline(results) :
           Len(NoiseResults(Without(results, {i}), noise_values[1]))
             = Len(NoiseResults(results, noise_values[1])) - 1

\* a baseline record whose size has a measured record with another avg_phi
C3_Witness ==
    /\ pc = "panelC"
    /\ \E i, j \in 1..Len(results) :
         /\ results[i].noise_amplitude = 0
         /\ results[j].noise_amplitude > 0
         /\ results[i].effective_neurons = results[j].effective_neurons
         /\ results[i].avg_phi # results[j].avg_phi

\* C4: after aggregation the per-size lists have 4 entries and the per-noise
\* lists 7, the lengths of the declared key sequences and of the label lists,
\* for every record collection, the empty one included.
C4_AxisLengths ==
    AfterPanelB =>
      /\ Len(phi_by_size) = 4 /\ Len(phi_std_by_size) = 4
      /\ Len(sizes) = 4 /\ Len(size_labels) = 4
      /\ Len(phi_by_noise) = 7 /\ Len(phi_std_by_noise) = 7
      /\ Len(noise_values) = 7 /\ Len(noise_levels) = 7

\* the empty collection has been aggregated
C4_Witness == pc = "panelC" /\ results = <<>> /\ Len(phi_by_noise) = 7

\* rs with the records at the positions i and j exchanged
Swapped(rs, i, j) ==
    [k \in 1..Len(rs) |-> IF k = i THEN rs[j] ELSE IF k = j THEN rs[i] ELSE rs[k]]

\* C5: position i of each summary list holds the summary of the i-th declared
\* key, and reordering the records gives the same lists.  The reorderings are
\* taken one exchange of two records at a time: every permutation is a chain
\* of exchanges, and every collection along the chain is itself checked.
C5_DeclaredKeyOrder ==
    AfterPanelB =>
      /\ \A k \in 1..Len(sizes) :
           [mean |-> phi_by_size[k], std |-> phi_std_by_size[k]]
             = SizeSummary(results, sizes[k])
      /\ \A k \in 1..Len(noise_values) :
           [mean |-> phi_by_noise[k], std |-> phi_std_by_noise[k]]
             = NoiseSummary(results, noise_values[k])
      /\ \A i, j \in 1..Len(results) :
           i < j =>
             /\ PanelALoop(Swapped(results, i, j), 1, <<>>, <<>>)
                  = [mean |-> phi_by_size, std |-> phi_std_by_size]
             /\ PanelBLoop(Swapped(results, i, j), 1, <<>>, <<>>)
                  = [mean |-> phi_by_noise, std |-> phi_std_by_noise]

\* the records meet the keys in the reverse of the declared order, with different means
C5_Witness ==
    /\ pc = "panelC"
    /\ Len(results) >= 2
    /\ results[1].noise_amplitude = 5 /\ results[2].noise_amplitude = 0
    /\ results[1].effective_neurons = 729 /\ results[2].effective_neurons = 64
    /\ phi_by_noise[1] # phi_by_noise[2]

\* C6: the standard deviation is the population one (divisor n): a group of
\* exactly two records with avg_phi a and b has mean (a+b)/2 and std |a-b|/2,
\* so 0.02 and 0.04 give mean 0.03 and std 0.01.
C6_PopulationStd ==
    AfterPanelB =>
      /\ \A k \in 1..Len(sizes) : \A i, j \in MatchingSize(results, sizes[k]) :
           (i # j /\ MatchingSize(results, sizes[k]) = {i, j}) =>
             /\ phi_by_size[k] = Rat(results[i].avg_phi + results[j].avg_phi, 2)
             /\ phi_std_by_size[k]
                  = Rat(Abs(results[i].avg_phi - results[j].avg_phi), 2)
             /\ ({results[i].avg_phi, results[j].avg_phi} = {2, 4}
                   => phi_by_size[k] = Rat(3, 1) /\ phi_std_by_size[k] = Rat(1, 1))
      /\ \A k \in 1..Len(noise_values) :
           \A i, j \in MatchingNoise(results, noise_values[k]) :
             (i # j /\ MatchingNoise(results, noise_values[k]) = {i, j}) =>
               /\ phi_by_noise[k] = Rat(results[i].avg_phi + results[j].avg_phi, 2)
               /\ phi_std_by_noise[k]
                    = Rat(Abs(results[i].avg_phi - results[j].avg_phi), 2)
               /\ ({results[i].avg_phi, results[j].avg_phi} = {2, 4}
                     => phi_by_noise[k] = Rat(3, 1) /\ phi_std_by_noise[k] = Rat(1, 1))

\* 0.02 and 0.04 share a size and a noise amplitude
C6_Witness ==
    /\ pc = "panelC"
    /\ Len(results) = 2
    /\ {results[1].avg_phi, results[2].avg_phi} = {2, 4}
    /\ results[1].effective_neurons = results[2].effective_neurons
    /\ results[1].noise_amplitude = 5 /\ results[2].noise_amplitude = 5
    /\ phi_std_by_size[1] = Rat(1, 1) \/ phi_std_by_size[4] = Rat(1, 1)

(***************************************************************************)
(* Failures and the loaded collection.                                     *)
(***************************************************************************)
Printed(text) == \E i \in 1..Len(printed) : printed[i].text = text

\* C7: when loading the results file fails (missing, unreadable, not
\* well-formed) the run ends there with an error and is not retried: nothing
\* has been or is later aggregated, rendered or written.
C7_LoadFailureIsFatal ==
    [][ /\ (pc = "load" /\ fileStatus # "ok") =>
             /\ pc' = "failed" /\ err' = "DataLoadError"
             /\ results' = <<>>
             /\ phi_by_size' = <<>> /\ phi_by_noise' = <<>>
             /\ quantum_configs' = <<>> /\ runtime_cubic' = <<>>
             /\ figures' = <<>> /\ written' = <<>> /\ printed' = <<>>
        /\ pc # "failed"
      ]_vars

\* a run that ended on a malformed input file
C7_Witness ==
    /\ pc = "failed" /\ err = "DataLoadError" /\ fileStatus = "malformed"
    /\ figures = <<>> /\ written = <<>>

\* C8: a figure write made while the output directory does not exist fails
\* with a write error that ends the run at that point: no retry, no later
\* figure rendered or written, no success message.
C8_MissingDirectoryIsFatal ==
    [][ /\ (pc \in {"save1", "save2", "save3"} /\ dirSeen' = Append(dirSeen, FALSE)) =>
             /\ pc' = "failed" /\ err' = "WriteError"
             /\ written' = written /\ figures' = figures /\ printed' = printed
             /\ Len(figures') = Len(written') + 1
             /\ \A i \in 1..Len(printed') : printed'[i].text # "SUCCESS"
        /\ pc # "failed"
      ]_vars

\* the directory was there for Figure 1 and gone for Figure 2
C8_Witness ==
    /\ pc = "failed" /\ err = "WriteError"
    /\ dirSeen = <<TRUE, FALSE>>
    /\ written = <<FigureFile(1)>> /\ figures = <<1, 2>>
    /\ ~Printed("SUCCESS")

\* C9 (as claimed): a run ends abnormally only by a load error or a write
\* error; when the file loads and all three writes succeed the run prints
\* the final summary and ends normally.
C9_OnlyLoadOrWriteErrors ==
    /\ pc = "failed" => err \in {"DataLoadError", "WriteError"}
    /\ (pc \in {"done", "failed"} /\ fileStatus = "ok" /\ Len(written) = 3) =>
         pc = "done" /\ Printed("next_step")

\* C10: after load, no step changes `results`: the same records, with the
\* same field values, in the same order (Panel C sorts a derived list).
C10_ResultsReadOnly ==
    [][ pc # "load" => results' = results ]_vars

\* Panel C has reordered its derived list and the loaded records stand as loaded
C10_Witness ==
    /\ pc = "panelD"
    /\ quantum_configs # QuantumConfigs(results)
    /\ Len(quantum_configs) = Len(QuantumConfigs(results))
    /\ results = fileResults

(***************************************************************************)
(* The metadata, the reference curves and the summary text.                *)
(***************************************************************************)
\* Panel D has just run: every series of Figure 1 is computed
AfterPanelD == pc = "save1"

\* Panel D has run in this run
PastPanelD ==
    \/ pc \in {"save1", "figure2", "save2", "figure3", "save3", "banner",
               "summary", "done"}
    \/ pc = "failed" /\ err \in {"WriteError", "KeyError"}

\* C11: the four metadata fields reach the console only.  Every series of
\* Figure 1 is what the records alone give, whatever the metadata fields hold
\* (or lack), so two runs on the same `results` compute the same per-size
\* and per-noise summaries, Panel C series and reference curves.
C11_MetadataOnlyPrinted ==
    AfterPanelD =>
      /\ PanelALoop(fileResults, 1, <<>>, <<>>)
           = [mean |-> phi_by_size, std |-> phi_std_by_size]
      /\ PanelBLoop(fileResults, 1, <<>>, <<>>)
           = [mean |-> phi_by_noise, std |-> phi_std_by_noise]
      /\ quantum_configs = SortByFirst(QuantumConfigs(fileResults))
      /\ quantum_phi = [i \in 1..Len(quantum_configs) |-> quantum_configs[i][3]]
      /\ classical_phi = [i \in 1..Len(quantum_configs) |-> Zero]
      /\ \A i \in 1..Len(n_range) :
           /\ runtime_cubic[i].times = CalibRuntime
           /\ runtime_cubic[i] = CubicAt(n_range[i])
           /\ runtime_exponential[i] = ExponentialAt(n_range[i])

\* the series are computed in a run whose file reports another runtime than 7044
C11_Witness ==
    /\ pc = "save1"
    /\ data = MetaDocB
    /\ Len(results) = 2
    /\ Len(runtime_cubic) = Len(n_range)

\* the two curves, as every run plots them ((num/den) * times, sign * 2^exp / per)
CubicCurve ==
    << [num |-> 1000, den |-> 387420489, times |-> 7044],
       [num |-> 125000, den |-> 387420489, times |-> 7044],
       [num |-> 1000000, den |-> 387420489, times |-> 7044],
       [num |-> 8000000, den |-> 387420489, times |-> 7044],
       [num |-> 125000000, den |-> 387420489, times |-> 7044],
       [num |-> 1000000000, den |-> 387420489, times |-> 7044] >>

ExponentialCurve ==
    << [sign |-> 1, exp |-> 10, per |-> 1000],
       [sign |-> 1, exp |-> 50, per |-> 1000],
       [sign |-> 0, exp |-> 0, per |-> 1000],
       [sign |-> 0, exp |-> 0, per |-> 1000],
       [sign |-> 0, exp |-> 0, per |-> 1000],
       [sign |-> 0, exp |-> 0, per |-> 1000] >>

\* C12: the reference curves are functions of the system size alone: once
\* computed they hold the same values in every run, whatever the records.
C12_CurvesSameInEveryRun ==
    PastPanelD =>
      /\ runtime_cubic = CubicCurve
      /\ runtime_exponential = ExponentialCurve

\* a run over three records, none of the calibration size
C12_Witness ==
    /\ pc = "save1"
    /\ Len(results) = 3
    /\ \A i \in 1..Len(results) : results[i].effective_neurons = 64
    /\ runtime_cubic # <<>>

C14_PrintedCountIsLen ==
    /\ \A i \in 1..Len(printed) :
         printed[i].text = "configurations_tested" =>
           printed[i].n = Len(results) /\ printed[i].n = Len(fileResults)
    /\ pc = "done" =>
         Cardinality({ i \in 1..Len(printed) :
                         printed[i].text = "configurations_tested" }) = 1

\* the count is printed for a collection with a baseline record in it
C14_Witness ==
    /\ pc = "done"
    /\ Len(fileResults) = 3
    /\ \E i \in 1..Len(fileResults) : fileResults[i].noise_amplitude = 0
    /\ \E i \in 1..Len(printed) :
         printed[i].text = "configurations_tested" /\ printed[i].n = 3

(***************************************************************************)
(* The order of the run, the exponential curve and the highlighted bar.    *)
(***************************************************************************)
\* s is an initial part of t
IsPrefix(s, t) == Len(s) <= Len(t) /\ \A i \in 1..Len(s) : s[i] = t[i]

\* the k of the "saved" messages printed so far, in order
RECURSIVE SavedMessages(_)
SavedMessages(ms) ==
    IF ms = <<>> THEN <<>>
    ELSE (IF Head(ms).text = "saved" THEN <<Head(ms).n>> ELSE <<>>)
         \o SavedMessages(Tail(ms))

\* C15: the script is a single pass.  Nothing is rendered, written or printed
\* before the load; the three files are written once each, in the order
\* simulated_results, hierarchical_structure, topological_invariants; the
\* "saved" message of a figure is printed only with its write done; SUCCESS
\* is printed only after all three writes; and a run with no load or write
\* error has written all three by the time it reaches the banner.
C15_SinglePass ==
    /\ pc = "load" => figures = <<>> /\ written = <<>> /\ printed = <<>> /\ results = <<>>
    /\ IsPrefix(written, <<"simulated_results.png", "hierarchical_structure.png",
                           "topological_invariants.png">>)
    /\ IsPrefix(figures, <<1, 2, 3>>)
    /\ Len(written) <= Len(figures)
    /\ SavedMessages(printed) = [k \in 1..Len(written) |-> k]
    /\ Printed("SUCCESS") => Len(written) = 3
    /\ (pc \in {"banner", "summary", "done"} \/ (pc = "failed" /\ err = "KeyError")) =>
         Len(written) = 3 /\ fileStatus = "ok" /\ \A i \in 1..3 : dirSeen[i]
    /\ pc \in {"summary", "done"} => Printed("SUCCESS")

\* a run with no error at all has ended
C15_Witness ==
    /\ pc = "done" /\ err = "none"
    /\ Len(written) = 3 /\ figures = <<1, 2, 3>>
    /\ Printed("SUCCESS") /\ Printed("next_step")

\* sign * 2^exp / per, compared
ExpLess(x, y) ==
    IF x.sign = 1 /\ y.sign = 1 THEN x.exp < y.exp
    ELSE IF x.sign = -1 /\ y.sign = -1 THEN y.exp < x.exp
    ELSE x.sign < y.sign

\* 2^exp / per > (num/den) * times.  On n_range the cubic value is below
\* 3 * 7044 < 2^15, so an exponent of 25 or more decides it; below that the
\* test is made with den \div num, which is at most den/num.
ExpAboveCubic(x, c) ==
    /\ x.sign = 1
    /\ \/ x.exp >= 25
       \/ (2 ^ x.exp) * (c.den \div c.num) > x.per * c.times

\* C16 (as claimed): at every sample size n the plotted exponential value is
\* 2^n * 0.001, so the curve is strictly increasing and lies above the cubic
\* curve at every sample size.
C16_ExponentialIsTwoToTheN ==
    PastPanelD =>
      /\ \A i \in 1..Len(n_range) :
           runtime_exponential[i] = [sign |-> 1, exp |-> n_range[i], per |-> 1000]
      /\ \A i, j \in 1..Len(n_range) :
           i < j => ExpLess(runtime_exponential[i], runtime_exponential[j])
      /\ \A i \in 1..Len(n_range) :
           ExpAboveCubic(runtime_exponential[i], runtime_cubic[i])

\* the declared noise levels no record matches
EmptyLevels(rs) ==
    { k \in 1..Len(noise_values) : MatchingNoise(rs, noise_values[k]) = {} }

\* C17 (as claimed): exactly one bar is highlighted, that of the declared
\* noise level with the greatest mean, the earliest of them in a tie; a level
\* with no matching record is highlighted only when all seven means are equal.
C17_HighlightIsGreatestMean ==
    AfterPanelB =>
      /\ optimal_idx \in 0..(Len(noise_values) - 1)
      /\ (optimal_idx + 1) \in EmptyLevels(results) =>
           \A k \in 1..Len(noise_values) : phi_by_noise[k] = phi_by_noise[1]
      /\ (\A k \in 1..Len(noise_values) : ~IsNaN(phi_by_noise[k])) =>
           /\ \A k \in 1..Len(noise_values) :
                ~RatLess(phi_by_noise[optimal_idx + 1], phi_by_noise[k])
           /\ \A k \in 1..optimal_idx :
                RatLess(phi_by_noise[k], phi_by_noise[optimal_idx + 1])

(***************************************************************************)
(* Claims about generate_figures.py of paper 5, under SpecPaper5.          *)
(***************************************************************************)

\* the k of the messages with the given text printed so far, in order
RECURSIVE ConsoleNumbers(_, _)
ConsoleNumbers(ms, text) ==
    IF ms = <<>> THEN <<>>
    ELSE (IF Head(ms).text = text THEN <<Head(ms).n>> ELSE <<>>)
         \o ConsoleNumbers(Tail(ms), text)

ConsoleHas(text) == \E i \in 1..Len(console) : console[i].text = text

\* C18: run as the main program, the script makes the directory 'figures'
\* before the first save, so no save fails because the directory is missing;
\* the figures are generated in the order MOM architecture, Fourier spectrum,
\* PVE flowchart, each saved once, and the completion banner is printed only
\* after all three saves.  Imported instead, the module does none of it.
C18_DirectoryThenThreeSaves ==
    /\ exc \notin {"FileNotFoundError", "NotADirectoryError"}
    /\ main_pc \in {"announce", "draw", "savefig", "print_saved", "close", "footer",
                    "location", "done"} => figures_dir = "dir"
    /\ saved # <<>> => figures_dir = "dir"
    /\ IsPrefix(saved, PaperFigures)
    /\ \A k \in 1..Len(saved) : saved[k] \in dir_files
    /\ ConsoleNumbers(console, "Generating") \in
         { [k \in 1..n |-> k] : n \in {Len(saved), Len(saved) + 1} }
    /\ IsPrefix(ConsoleNumbers(console, "saved"), [k \in 1..Len(saved) |-> k])
    /\ Len(saved) - Len(ConsoleNumbers(console, "saved")) \in {0, 1}
    /\ ConsoleHas("ALL FIGURES GENERATED") => saved = PaperFigures
    /\ main_pc = "done" => ConsoleHas("ALL FIGURES GENERATED")
    /\ ~as_main => saved = <<>> /\ console = <<>> /\ ~dir_created

\* a main run that had to create the directory and got to the end
C18_Witness ==
    /\ as_main /\ main_pc = "done" /\ exc = "none"
    /\ dir_created /\ figures_dir = "dir"
    /\ saved = PaperFigures
    /\ ConsoleHas("ALL FIGURES GENERATED")

====
